---------------------------- MODULE Spec2Model ----------------------------
(***************************************************************************)
(* Model of location_of_interest_checker.py: one run of main() over a      *)
(* location history file and a feed of locations of interest.              *)
(*                                                                         *)
(* Units.  Times are whole hours of one local day (the history file's      *)
(* timestampMs and the feed's "H:MM am|pm" strings both land on that       *)
(* line).  Degrees are kept as fixed point with five decimals, so          *)
(* latitudeE7 * 1e-7 is latitudeE7 \div 100.  Distances are hundredths of  *)
(* a kilometre, the resolution round(km, 2) leaves.                        *)
(***************************************************************************)
EXTENDS Integers, Sequences, FiniteSets, TLC

(***************************************************************************)
(* Bounds of the model.                                                    *)
(***************************************************************************)
MaxHistory == 2        \* items in the location history file
MaxLocations == 2      \* features in the locations-of-interest feed

(***************************************************************************)
(* Program constants.                                                      *)
(***************************************************************************)
\* threshold_timestamp_ms = 1624241116000, on the model's hour line.
threshold_timestamp_ms == 12

\* float('nan') and pd.to_datetime("nat"): a missing value.  Every real
\* time, coordinate and distance of the model is >= 0.
NaN == -1
NaT == -1

isna(v) == v = NaN

(***************************************************************************)
(* Inputs.                                                                 *)
(***************************************************************************)
\* locations.item records of the exported history.
TimestampsMs == {11, 12, 13}
CoordinatesE7 == {<<0, 0>>, <<300, 400>>}
LocationItems ==
    { [timestampMs |-> t, latitudeE7 |-> c[1], longitudeE7 |-> c[2]] :
        t \in TimestampsMs, c \in CoordinatesE7 }

\* Features of the geojson feed: Start/End strings and a point geometry.
StartStrs == { [I |-> 11, p |-> "am"], [I |-> 12, p |-> "pm"] }
EndStrs == { [I |-> 1, p |-> "pm"], [I |-> 2, p |-> "pm"] }
FeedPoints == { [x |-> 0, y |-> 0], [x |-> 0, y |-> 3] }
Features ==
    { [Start |-> s, End |-> e, geometry |-> g] :
        s \in StartStrs, e \in EndStrs, g \in FeedPoints }

SeqsUpTo(S, n) == UNION { [1..k -> S] : k \in 0..n }

VARIABLES
    pc,                     \* where main() is
    history_file,           \* the <location_history_file> argument's items
    feed,                   \* the features behind locations_of_interest_url
    locations_of_interest,  \* main's locations_of_interest frame
    location_history,       \* main's location_history frame
    i,                      \* row DataFrame.apply is at (1-based)
    applied,                \* rows DataFrame.apply has produced so far
    warnings,               \* locations get_distance_... warned about
    report,                 \* what print_processing_report printed
    output_csv              \* rows written to <output_csv>

vars == << pc, history_file, feed, locations_of_interest, location_history,
           i, applied, warnings, report, output_csv >>

(***************************************************************************)
(* Frames: a DataFrame is a sequence of rows, each carrying its index      *)
(* label.  iloc is positional (0-based), loc is by label.                  *)
(***************************************************************************)
Point(x, y) == [x |-> x, y |-> y]

iloc(frame, pos) == frame[pos + 1]

loc(frame, label) ==
    frame[CHOOSE k \in DOMAIN frame : frame[k].index = label]

RECURSIVE loc_mask(_, _)
loc_mask(frame, mask) ==
    IF frame = << >> THEN << >>
    ELSE LET rest == loc_mask(Tail(frame), Tail(mask))
         IN  IF Head(mask) THEN << Head(frame) >> \o rest ELSE rest

any(mask) == \E k \in DOMAIN mask : mask[k]

sum(mask) == Cardinality({ k \in DOMAIN mask : mask[k] })

\* Series.argmin as np.argmin reaches it: missing values are skipped, the
\* first position holding the minimum is returned (0-based).
argmin(values) ==
    LET present == { k \in DOMAIN values : ~isna(values[k]) }
        least == { k \in present :
                     \A j \in present : values[k] <= values[j] }
    IN  IF present = {} THEN -1
        ELSE (CHOOSE k \in least : \A j \in least : k <= j) - 1

(***************************************************************************)
(* read_location_history_file                                              *)
(***************************************************************************)
\* Faulty variant: an item exactly at the threshold is dropped as well.
RECURSIVE location_list_drops_cutoff(_)
location_list_drops_cutoff(items) ==
    IF items = << >> THEN << >>
    ELSE IF Head(items).timestampMs <= threshold_timestamp_ms
         THEN location_list_drops_cutoff(Tail(items))
         ELSE << Head(items) >> \o location_list_drops_cutoff(Tail(items))

RECURSIVE location_list(_)
location_list(items) ==
    IF items = << >> THEN << >>
    ELSE IF Head(items).timestampMs < threshold_timestamp_ms
         THEN location_list(Tail(items))
         ELSE << Head(items) >> \o location_list(Tail(items))

history_frame(list) ==
    [ k \in 1..Len(list) |->
        LET lat == list[k].latitudeE7 \div 100
            lon == list[k].longitudeE7 \div 100
        IN  [ index |-> k - 1,
              time |-> list[k].timestampMs,
              lat |-> lat,
              lon |-> lon,
              geometry |-> Point(lon, lat) ] ]

(***************************************************************************)
(* read_locations_of_interest_file                                         *)
(***************************************************************************)
\* strptime's %I and %p: 12 am is hour 0, 12 pm is hour 12.
parse_locations_of_interest_time_str(time_str) ==
    (time_str.I % 12) + (IF time_str.p = "pm" THEN 12 ELSE 0)

read_locations_of_interest_file(features) ==
    [ k \in 1..Len(features) |->
        [ index |-> k - 1,
          Start |-> parse_locations_of_interest_time_str(features[k].Start),
          End |-> parse_locations_of_interest_time_str(features[k].End),
          geometry |-> features[k].geometry,
          lat |-> features[k].geometry.y,
          lon |-> features[k].geometry.x ] ]

(***************************************************************************)
(* point_to_point_distance: round(geodesic km, 2), in hundredths of a km.  *)
(* The geodesic of two points a few 1e-5 degrees apart is 111 km per       *)
(* degree of separation; r is that length rounded to the nearest           *)
(* hundredth: r - 1/2 <= 0.111 * sqrt(d2) < r + 1/2.                       *)
(***************************************************************************)
point_to_point_distance(p1, p2) ==
    LET d2 == (p1.y - p2.y) * (p1.y - p2.y) + (p1.x - p2.x) * (p1.x - p2.x)
    IN  CHOOSE r \in 0..d2 :
            /\ (r = 0 \/ (2 * r - 1) * (2 * r - 1) * 1000000 <= 49284 * d2)
            /\ 49284 * d2 < (2 * r + 1) * (2 * r + 1) * 1000000

(***************************************************************************)
(* get_distance_to_location_of_interest                                    *)
(***************************************************************************)
\* Faulty variant: the window includes its two ends.
locations_in_window_indices_inclusive(location_of_interest, history) ==
    [ k \in DOMAIN history |->
        /\ history[k].time >= location_of_interest.Start
        /\ history[k].time <= location_of_interest.End ]

locations_in_window_indices(location_of_interest, history) ==
    [ k \in DOMAIN history |->
        /\ history[k].time > location_of_interest.Start
        /\ history[k].time < location_of_interest.End ]

\* Faulty variant: an unmatched location reports distance 0 instead of a missing one.
no_match_zero_distance ==
    [ location_history_record_time |-> NaT,
      distance_to_location_km |-> 0,
      personal_lat |-> NaN,
      personal_lon |-> NaN,
      comment |-> "No matching records found in location history" ]

no_match ==
    [ location_history_record_time |-> NaT,
      distance_to_location_km |-> NaN,
      personal_lat |-> NaN,
      personal_lon |-> NaN,
      comment |-> "No matching records found in location history" ]

\* Faulty variant: the first sample of the window is reported, not the closest.
matching_location_history_first(location_of_interest, history) ==
    LET mask == locations_in_window_indices(location_of_interest, history)
        in_window == loc_mask(history, mask)
        distance == [ k \in DOMAIN in_window |->
                        point_to_point_distance(in_window[k].geometry,
                                                location_of_interest.geometry) ]
        row == iloc(in_window, 0)
    IN  [ location_history_record_time |-> row.time,
          distance_to_location_km |-> iloc(distance, 0),
          personal_lat |-> row.lat,
          personal_lon |-> row.lon,
          comment |-> ToString(sum(mask))
                        \o " matching records found in location history" ]

\* Faulty variant: the comment counts the whole history, not the window.
matching_location_history_counts_all(location_of_interest, history) ==
    LET mask == locations_in_window_indices(location_of_interest, history)
        in_window == loc_mask(history, mask)
        distance == [ k \in DOMAIN in_window |->
                        point_to_point_distance(in_window[k].geometry,
                                                location_of_interest.geometry) ]
        row == iloc(in_window, argmin(distance))
    IN  [ location_history_record_time |-> row.time,
          distance_to_location_km |-> iloc(distance, argmin(distance)),
          personal_lat |-> row.lat,
          personal_lon |-> row.lon,
          comment |-> ToString(Len(history))
                        \o " matching records found in location history" ]

matching_location_history(location_of_interest, history) ==
    LET mask == locations_in_window_indices(location_of_interest, history)
        in_window == loc_mask(history, mask)
        distance == [ k \in DOMAIN in_window |->
                        point_to_point_distance(in_window[k].geometry,
                                                location_of_interest.geometry) ]
        row == iloc(in_window, argmin(distance))
    IN  [ location_history_record_time |-> row.time,
          distance_to_location_km |-> iloc(distance, argmin(distance)),
          personal_lat |-> row.lat,
          personal_lon |-> row.lon,
          comment |-> ToString(sum(mask))
                        \o " matching records found in location history" ]

get_distance_to_location_of_interest(location_of_interest, history) ==
    IF ~any(locations_in_window_indices(location_of_interest, history))
    THEN location_of_interest @@ no_match
    ELSE location_of_interest
            @@ matching_location_history(location_of_interest, history)

\* Faulty variant: the window selection is bound back to the history frame.
history_narrowed_by_call(location_of_interest, history) ==
    LET mask == locations_in_window_indices(location_of_interest, history)
    IN  IF any(mask) THEN loc_mask(history, mask) ELSE history

\* The history frame once the call returns: the boolean .loc selection is a
\* copy, and the distance column is assigned to that copy.
history_after_call(location_of_interest, history) == history

(***************************************************************************)
(* print_processing_report                                                 *)
(***************************************************************************)
distance_column(frame) ==
    [ k \in DOMAIN frame |-> frame[k].distance_to_location_km ]

\* Faulty variant: argmin over the raw values, where a missing value wins: the
\* position of the first missing value when there is one.
print_processing_report_raw_argmin(frame) ==
    LET col == distance_column(frame)
        num_matched_locations == sum([ k \in DOMAIN col |-> ~isna(col[k]) ])
        num_unmatched_locations == sum([ k \in DOMAIN col |-> isna(col[k]) ])
        missing == { k \in DOMAIN col : isna(col[k]) }
        raw_argmin == IF missing = {} THEN argmin(col)
                      ELSE (CHOOSE k \in missing :
                                \A j \in missing : k <= j) - 1
    IN  [ num_matched |-> num_matched_locations,
          total |-> Len(frame),
          unmatched_warning |->
              IF num_unmatched_locations > 0
              THEN << num_unmatched_locations >> ELSE << >>,
          closest |->
              IF num_matched_locations > 0
              THEN << loc(frame, raw_argmin) >> ELSE << >> ]

print_processing_report(frame) ==
    LET col == distance_column(frame)
        num_matched_locations == sum([ k \in DOMAIN col |-> ~isna(col[k]) ])
        num_unmatched_locations == sum([ k \in DOMAIN col |-> isna(col[k]) ])
    IN  [ num_matched |-> num_matched_locations,
          total |-> Len(frame),
          unmatched_warning |->
              IF num_unmatched_locations > 0
              THEN << num_unmatched_locations >> ELSE << >>,
          closest |->
              IF num_matched_locations > 0
              THEN << loc(frame, argmin(col)) >> ELSE << >> ]

(***************************************************************************)
(* sort_values(by="distance_to_location_km"): ascending, missing values    *)
(* last.  The present values are argsorted, the rows holding a missing     *)
(* value follow in their original order.  Rows of equal distance keep      *)
(* their input order here, as numpy's sort does on arrays this short; on   *)
(* long frames their order is unspecified.                                 *)
(***************************************************************************)
RECURSIVE insert_sorted(_, _)
insert_sorted(row, sorted) ==
    IF sorted = << >> THEN << row >>
    ELSE IF row.distance_to_location_km < Head(sorted).distance_to_location_km
         THEN << row >> \o sorted
         ELSE << Head(sorted) >> \o insert_sorted(row, Tail(sorted))

RECURSIVE argsort(_)
argsort(frame) ==
    IF frame = << >> THEN << >>
    ELSE insert_sorted(frame[Len(frame)],
                       argsort(SubSeq(frame, 1, Len(frame) - 1)))

\* Faulty variant: the frame is written as it is, without sorting.
sort_values_skipped(frame) == frame

sort_values(frame) ==
    LET col == distance_column(frame)
    IN  argsort(loc_mask(frame, [ k \in DOMAIN col |-> ~isna(col[k]) ]))
            \o loc_mask(frame, [ k \in DOMAIN col |-> isna(col[k]) ])

(***************************************************************************)
(* main                                                                    *)
(***************************************************************************)
\* The arguments of one run.  The published feed lists at least one
\* location; the history file may hold no item at all.
Init ==
    /\ pc = "read_locations_of_interest"
    /\ history_file \in SeqsUpTo(LocationItems, MaxHistory)
    /\ feed \in SeqsUpTo(Features, MaxLocations) \ { << >> }
    /\ locations_of_interest = << >>
    /\ location_history = << >>
    /\ i = 0
    /\ applied = << >>
    /\ warnings = << >>
    /\ report = << >>
    /\ output_csv = << >>

ReadLocationsOfInterest ==
    /\ pc = "read_locations_of_interest"
    /\ locations_of_interest' = read_locations_of_interest_file(feed)
    /\ pc' = "read_location_history"
    /\ UNCHANGED << history_file, feed, location_history, i, applied,
                    warnings, report, output_csv >>

\* pd.DataFrame([]) has no timestampMs column: line 56 raises AttributeError.
ReadLocationHistoryFails ==
    /\ pc = "read_location_history"
    /\ location_list(history_file) = << >>
    /\ pc' = "AttributeError"
    /\ UNCHANGED << history_file, feed, locations_of_interest,
                    location_history, i, applied, warnings, report,
                    output_csv >>

ReadLocationHistory ==
    /\ pc = "read_location_history"
    /\ location_list(history_file) # << >>
    /\ location_history' = history_frame(location_list(history_file))
    /\ i' = 1
    /\ pc' = "apply"
    /\ UNCHANGED << history_file, feed, locations_of_interest, applied,
                    warnings, report, output_csv >>

\* Faulty variant: a location without a match yields no row.
ApplyRowDropsUnmatched ==
    /\ pc = "apply"
    /\ i <= Len(locations_of_interest)
    /\ LET location == locations_of_interest[i]
           unmatched == ~any(locations_in_window_indices(location,
                                                         location_history))
       IN  /\ applied' =
                 IF unmatched THEN applied
                 ELSE Append(applied,
                        get_distance_to_location_of_interest(location,
                                                             location_history))
           /\ warnings' =
                 IF unmatched THEN Append(warnings, location) ELSE warnings
           /\ location_history' = history_after_call(location,
                                                     location_history)
    /\ i' = i + 1
    /\ UNCHANGED << pc, history_file, feed, locations_of_interest, report,
                    output_csv >>

\* One row of locations_of_interest.apply(..., axis=1).
ApplyRow ==
    /\ pc = "apply"
    /\ i <= Len(locations_of_interest)
    /\ LET location == locations_of_interest[i]
       IN  /\ applied' = Append(applied,
                 get_distance_to_location_of_interest(location,
                                                      location_history))
           /\ warnings' =
                 IF ~any(locations_in_window_indices(location,
                                                     location_history))
                 THEN Append(warnings, location)
                 ELSE warnings
           /\ location_history' = history_after_call(location,
                                                     location_history)
    /\ i' = i + 1
    /\ UNCHANGED << pc, history_file, feed, locations_of_interest, report,
                    output_csv >>

\* apply returns: the result frame is bound to locations_of_interest.
ApplyReturns ==
    /\ pc = "apply"
    /\ i > Len(locations_of_interest)
    /\ locations_of_interest' = applied
    /\ pc' = "print_processing_report"
    /\ UNCHANGED << history_file, feed, location_history, i, applied,
                    warnings, report, output_csv >>

PrintProcessingReport ==
    /\ pc = "print_processing_report"
    /\ report' = print_processing_report(locations_of_interest)
    /\ pc' = "to_csv"
    /\ UNCHANGED << history_file, feed, locations_of_interest,
                    location_history, i, applied, warnings, output_csv >>

WriteCsv ==
    /\ pc = "to_csv"
    /\ output_csv' = sort_values(locations_of_interest)
    /\ pc' = "done"
    /\ UNCHANGED << history_file, feed, locations_of_interest,
                    location_history, i, applied, warnings, report >>

Next ==
    \/ ReadLocationsOfInterest
    \/ ReadLocationHistoryFails
    \/ ReadLocationHistory
    \/ ApplyRow
    \/ ApplyReturns
    \/ PrintProcessingReport
    \/ WriteCsv

Spec == Init /\ [][Next]_vars

(***************************************************************************)
(* What the properties below talk about.                                   *)
(***************************************************************************)
\* The locations of interest as loaded, before apply replaces the frame.
Lois == read_locations_of_interest_file(feed)

\* The history as loaded from the file.
LoadedHistory == history_frame(location_list(history_file))

HistoryIsLoaded ==
    pc \in { "apply", "print_processing_report", "to_csv", "done" }

ReportIsPrinted == pc \in { "to_csv", "done" }

\* Positions of the history samples strictly inside location k's window.
InWindow(k) ==
    { s \in DOMAIN location_history :
        /\ Lois[k].Start < location_history[s].time
        /\ location_history[s].time < Lois[k].End }

\* Distance from history sample s to location k.
DistanceTo(k, s) ==
    point_to_point_distance(location_history[s].geometry, Lois[k].geometry)

Matched(row) == ~isna(row.distance_to_location_km)

(***************************************************************************)
(* C1: whenever at least one history sample lies inside a location's       *)
(* window, the result reports one in-window sample (its time, latitude and *)
(* longitude), the reported distance is that sample's distance to the      *)
(* location, and no in-window sample is closer.                            *)
(***************************************************************************)
C1_MinimumDistanceInWindow ==
    \A k \in DOMAIN applied :
        InWindow(k) # {} =>
            \E s \in InWindow(k) :
                /\ applied[k].location_history_record_time
                       = location_history[s].time
                /\ applied[k].personal_lat = location_history[s].lat
                /\ applied[k].personal_lon = location_history[s].lon
                /\ applied[k].distance_to_location_km = DistanceTo(k, s)
                /\ \A t \in InWindow(k) :
                       applied[k].distance_to_location_km <= DistanceTo(k, t)

\* A location whose window holds two samples, the later one strictly closer,
\* and the later one is the one reported.
C1_Witness ==
    \E k \in DOMAIN applied :
        \E s, t \in InWindow(k) :
            /\ s < t
            /\ DistanceTo(k, t) < DistanceTo(k, s)
            /\ applied[k].distance_to_location_km = DistanceTo(k, t)
            /\ applied[k].personal_lat = location_history[t].lat
            /\ applied[k].personal_lon = location_history[t].lon

(***************************************************************************)
(* C2: the window is exclusive at both ends.  A location is matched        *)
(* exactly when some sample has Start < time < End, and the sample it      *)
(* reports is never one at Start or at End.                                *)
(***************************************************************************)
C2_WindowStrictlyExclusive ==
    \A k \in DOMAIN applied :
        /\ Matched(applied[k]) <=>
               \E s \in DOMAIN location_history :
                   /\ location_history[s].time > Lois[k].Start
                   /\ location_history[s].time < Lois[k].End
        /\ Matched(applied[k]) =>
               /\ applied[k].location_history_record_time > Lois[k].Start
               /\ applied[k].location_history_record_time < Lois[k].End

\* The history holds a sample exactly at Start and one exactly at End, and
\* nothing in between: the location stays unmatched.
C2_Witness ==
    \E k \in DOMAIN applied :
        /\ \E s \in DOMAIN location_history :
               location_history[s].time = Lois[k].Start
        /\ \E s \in DOMAIN location_history :
               location_history[s].time = Lois[k].End
        /\ ~Matched(applied[k])

(***************************************************************************)
(* C3: a location whose window holds no sample gets NaT/NaN for the        *)
(* matched time, distance, latitude and longitude and the comment "No      *)
(* matching records found in location history"; and a result's distance    *)
(* is missing only when the window holds no sample.                        *)
(***************************************************************************)
C3_NoMatchResult ==
    \A k \in DOMAIN applied :
        /\ InWindow(k) = {} =>
               /\ applied[k].location_history_record_time = NaT
               /\ applied[k].distance_to_location_km = NaN
               /\ applied[k].personal_lat = NaN
               /\ applied[k].personal_lon = NaN
               /\ applied[k].comment
                      = "No matching records found in location history"
        /\ isna(applied[k].distance_to_location_km) => InWindow(k) = {}

\* One location of the run is unmatched although the history is not empty,
\* and another one is matched.
C3_Witness ==
    /\ location_history # << >>
    /\ \E k \in DOMAIN applied : InWindow(k) = {} /\ ~Matched(applied[k])
    /\ \E k \in DOMAIN applied : InWindow(k) # {} /\ Matched(applied[k])

(***************************************************************************)
(* C4: the count in a matched result's comment is the number of history    *)
(* samples with Start < time < End.                                        *)
(***************************************************************************)
C4_CommentCountsCandidates ==
    \A k \in DOMAIN applied :
        Matched(applied[k]) =>
            applied[k].comment =
                ToString(Cardinality(InWindow(k)))
                    \o " matching records found in location history"

\* One match taken over a single candidate of a two-sample history, and one
\* taken over two candidates.
C4_Witness ==
    /\ \E k \in DOMAIN applied :
           /\ Cardinality(InWindow(k)) = 1
           /\ Len(location_history) = 2
           /\ applied[k].comment
                  = "1 matching records found in location history"
    /\ \E k \in DOMAIN applied :
           /\ Cardinality(InWindow(k)) = 2
           /\ applied[k].comment
                  = "2 matching records found in location history"

(***************************************************************************)
(* C5: the rows written to the csv are a permutation of the result rows,   *)
(* ascending by distance, every row with a missing distance after every    *)
(* row with a distance.                                                    *)
(***************************************************************************)
C5_ReportSortedUnmatchedLast ==
    pc = "done" =>
        /\ Len(output_csv) = Len(locations_of_interest)
        /\ \E f \in [DOMAIN output_csv -> DOMAIN locations_of_interest] :
               /\ \A a, b \in DOMAIN output_csv : a # b => f[a] # f[b]
               /\ \A a \in DOMAIN output_csv :
                      output_csv[a] = locations_of_interest[f[a]]
        /\ \A a, b \in DOMAIN output_csv :
               a < b =>
                   /\ Matched(output_csv[b]) => Matched(output_csv[a])
                   /\ Matched(output_csv[b]) =>
                          output_csv[a].distance_to_location_km
                              <= output_csv[b].distance_to_location_km

\* The input lists an unmatched location before a matched one: the csv has
\* them the other way round.
C5_Witness ==
    /\ pc = "done"
    /\ Len(locations_of_interest) = 2
    /\ ~Matched(locations_of_interest[1])
    /\ Matched(locations_of_interest[2])
    /\ output_csv = << locations_of_interest[2], locations_of_interest[1] >>

(***************************************************************************)
(* C6: loading keeps exactly the items with timestampMs >= the threshold,  *)
(* an item at the threshold included, in the order of the file.            *)
(***************************************************************************)
C6_ThresholdFilterInclusive ==
    HistoryIsLoaded =>
        LET kept == { n \in DOMAIN history_file :
                        history_file[n].timestampMs
                            >= threshold_timestamp_ms }
        IN  /\ Len(location_history) = Cardinality(kept)
            /\ \A n \in kept :
                   LET j == Cardinality({ m \in kept : m < n }) + 1
                   IN  /\ location_history[j].time
                              = history_file[n].timestampMs
                       /\ location_history[j].lat * 100
                              = history_file[n].latitudeE7
                       /\ location_history[j].lon * 100
                              = history_file[n].longitudeE7

\* The file holds an older item followed by one exactly at the threshold:
\* only the latter is loaded.
C6_Witness ==
    /\ HistoryIsLoaded
    /\ Len(history_file) = 2
    /\ history_file[1].timestampMs < threshold_timestamp_ms
    /\ history_file[2].timestampMs = threshold_timestamp_ms
    /\ Len(location_history) = 1
    /\ location_history[1].time = threshold_timestamp_ms

(***************************************************************************)
(* C7: the closest location of interest printed by the report is a matched *)
(* row of minimum distance among the matched rows; with no matched row     *)
(* nothing is printed as closest.                                          *)
(***************************************************************************)
C7_ClosestAmongMatchedOnly ==
    ReportIsPrinted =>
        LET matched == { k \in DOMAIN locations_of_interest :
                           Matched(locations_of_interest[k]) }
        IN  IF matched = {}
            THEN report.closest = << >>
            ELSE /\ Len(report.closest) = 1
                 /\ \E k \in matched :
                        report.closest[1] = locations_of_interest[k]
                 /\ \A k \in matched :
                        report.closest[1].distance_to_location_km
                            <= locations_of_interest[k].distance_to_location_km

\* An unmatched row precedes the matched one, and the matched one is printed.
C7_Witness ==
    /\ ReportIsPrinted
    /\ Len(locations_of_interest) = 2
    /\ ~Matched(locations_of_interest[1])
    /\ Matched(locations_of_interest[2])
    /\ report.closest = << locations_of_interest[2] >>

(***************************************************************************)
(* C8: with an empty position history (every item of the file older than   *)
(* the threshold) the run does not fail.                                   *)
(***************************************************************************)
C8_EmptyHistoryDoesNotFail ==
    location_list(history_file) = << >> => pc # "AttributeError"

(***************************************************************************)
(* C9: an unmatched location does not end the batch.  Once apply returns   *)
(* there is one result per location of the feed, in order, each carrying   *)
(* that location's own fields; and in the report the matched count plus    *)
(* the unmatched count is the number of locations.                         *)
(***************************************************************************)
C9_UnmatchedDoesNotAbortBatch ==
    /\ pc \in { "print_processing_report", "to_csv", "done" } =>
           /\ Len(locations_of_interest) = Len(feed)
           /\ \A k \in DOMAIN locations_of_interest :
                  /\ locations_of_interest[k].index = Lois[k].index
                  /\ locations_of_interest[k].Start = Lois[k].Start
                  /\ locations_of_interest[k].End = Lois[k].End
                  /\ locations_of_interest[k].geometry = Lois[k].geometry
                  /\ locations_of_interest[k].lat = Lois[k].lat
                  /\ locations_of_interest[k].lon = Lois[k].lon
    /\ ReportIsPrinted =>
           /\ report.total = Len(feed)
           /\ report.num_matched
                  + (IF report.unmatched_warning = << >> THEN 0
                     ELSE report.unmatched_warning[1])
                  = report.total

\* The first location is unmatched, the second is still processed and
\* matched, and the report counts one of each.
C9_Witness ==
    /\ ReportIsPrinted
    /\ Len(feed) = 2
    /\ ~Matched(locations_of_interest[1])
    /\ Matched(locations_of_interest[2])
    /\ report.num_matched = 1
    /\ report.unmatched_warning = << 1 >>

(***************************************************************************)
(* C10: matching leaves the history as it was loaded, so every result is   *)
(* what matching that location alone against the loaded history gives.     *)
(***************************************************************************)
C10_HistoryUnchangedByMatching ==
    HistoryIsLoaded =>
        /\ location_history = LoadedHistory
        /\ \A k \in DOMAIN applied :
               applied[k]
                   = get_distance_to_location_of_interest(Lois[k],
                                                          LoadedHistory)

\* Two locations were matched one after the other, the second against a
\* sample outside the first one's window.
C10_Witness ==
    /\ Len(applied) = 2
    /\ Matched(applied[1])
    /\ Matched(applied[2])
    /\ applied[2].location_history_record_time
           # applied[1].location_history_record_time
    /\ applied[2].location_history_record_time <= Lois[1].Start

=============================================================================
